---- MODULE Spec2Model ----
(***************************************************************************)
(* Model of src/main.py: a Telegram front end for a generative model.      *)
(* State: the in-memory session map chat_sessions, the debounce map        *)
(* last_interaction_time, the Firestore collection user_chats, the chat    *)
(* objects of the SDK (mutable, shared by reference), the files under      *)
(* TEMP_DIR, and the worker threads that run the message handlers.         *)
(* Each handler is cut into steps at its accesses to shared state and its  *)
(* blocking calls, so that handlers of different threads interleave as     *)
(* they do under the bot's worker pool.                                    *)
(***************************************************************************)
EXTENDS Integers, Sequences, FiniteSets, TLC

\* ------------------------------------------------------------- bounds
NumUsers == 2
NumThreads == 2
MaxReq == 2
MaxTime == 2
\* clock resolution: ticks per second of time.time()
TicksPerSecond == 2
\* the longest PDF a user sends, in pages
MaxPages == 3

\* `(time.time() - last_interaction_time[user_id]) < 1`
DebounceSeconds == 1

Users == 1..NumUsers
Threads == 1..NumThreads
ReqIds == 1..MaxReq

VARIABLES
    client,                 \* TRUE iff the Gemini client was created (client is not None)
    db,                     \* TRUE iff the Firestore client was created (db is not None)
    store,                  \* Firestore's health: "up", "down" (every call fails), "flaky"
    chat_sessions,          \* user -> chat object id, 0 when the user has no entry
    last_interaction_time,  \* user -> time of the last accepted text message, -1 when absent
    user_chats,             \* Firestore: user -> [exists, history]
    chats,                  \* the SDK chat objects: object id -> history (sequence of turns)
    files,                  \* the files that exist under TEMP_DIR
    now,                    \* time.time(), in ticks
    nreq,                   \* number of requests that went on to fetch or send content
    mode,                   \* the transport: "serial" hands over one update at a time, "parallel" overlaps them
    th,                     \* worker thread -> the frame of the handler it runs
    \* history variables (not program state), used to state the properties
    ideal,                  \* user -> turns of the successful exchanges since the last reset
    raced                   \* user -> two handlers of the user have overlapped in time

vars == <<client, db, store, chat_sessions, last_interaction_time, user_chats, chats,
          files, now, nreq, mode, th, ideal, raced>>

shared == <<chat_sessions, last_interaction_time, user_chats, chats, files>>
ghosts == <<ideal, raced>>

config == <<client, db, store, mode>>

\* ------------------------------------------------------------- values
NoText == [of |-> 0, body |-> "None"]
EmptyText == [of |-> 0, body |-> ""]
MsgText(id) == [of |-> id, body |-> "text"]
CaptionText(id) == [of |-> id, body |-> "caption"]
ReplyText(id) == [of |-> id, body |-> "reply"]
PhotoDefaultPrompt == [of |-> 0, body |-> "photo-default-prompt"]
DocumentDefaultPrompt == [of |-> 0, body |-> "document-default-prompt"]

\* a Part of the SDK: .text is None for an image part
NoPart == [text |-> NoText, image |-> 0]
TextPart(x) == [text |-> x, image |-> 0]
ImagePart(id) == [text |-> NoText, image |-> id]
IsImage(p) == p.image # 0

Turn(role, parts) == [role |-> role, parts |-> parts]

NoDoc == [exists |-> FALSE, history |-> <<>>]

MimePdf == "application/pdf"
MimeImage == "image/png"
MimeOther == "text/plain"
MimeNone == "None"
MimeTypes == {MimePdf, MimeImage, MimeOther, MimeNone}

\* Python truthiness of message.caption / message.text
Truthy(x) == x # NoText /\ x # EmptyText

TempFile(id) == <<"download", id>>
TempPng(id) == <<"temp_pdf_png", id>>

IdleFrame ==
    [pc |-> "idle", id |-> 0, user_id |-> 0, kind |-> "none",
     user_prompt |-> NoText, caption |-> NoText, mime_type |-> MimeNone,
     chat |-> 0, file_part |-> NoPart, contents |-> <<>>,
     temp_file_path |-> FALSE, outcome |-> "None",
     invoked |-> 0, mutated |-> FALSE,
     pages |-> 0, loaded |-> {}]

InFlight(t) == th[t].pc \notin {"idle", "done"}

\* thread t is at step pc of its handler, and no returned handler awaits its clean-up
Running(t, pc) == th[t].pc = pc /\ \A t2 \in Threads : th[t2].pc # "done"

\* ------------------------------------------------------------- Init
Init ==
    /\ client \in BOOLEAN
    /\ db \in BOOLEAN
    /\ store \in (IF db THEN {"up", "down", "flaky"} ELSE {"up"})
    /\ chat_sessions = [u \in Users |-> 0]
    /\ last_interaction_time = [u \in Users |-> -1]
    /\ user_chats = [u \in Users |-> NoDoc]
    /\ chats = [i \in ReqIds |-> <<>>]
    /\ files = {}
    /\ now = 0
    /\ nreq = 0
    /\ mode \in {"serial", "parallel"}
    /\ th = [t \in Threads |-> IdleFrame]
    /\ ideal = [u \in Users |-> <<>>]
    /\ raced = [u \in Users |-> FALSE]

\* ------------------------------------------------- pure helpers (code)
\* `'pdf' in mime_type`, `'image' in mime_type`
HasPdf(m) == m = MimePdf
HasImage(m) == m = MimeImage

\* handle_text: `user_id in last_interaction_time and (time.time() - last) < 1`
Suppressed(u) ==
    /\ last_interaction_time[u] # -1
    /\ (now - last_interaction_time[u]) < DebounceSeconds * TicksPerSecond

\* get_session_history, db is None: `chat_sessions.get(user_id, client.chats.create(...))`
LookupSession(u, fresh) ==
    IF chat_sessions[u] # 0 THEN chat_sessions[u] ELSE fresh

\* get_session_history: every stored item becomes a Content with one text Part
RECURSIVE Reconstruct(_)
Reconstruct(history_data) ==
    IF history_data = <<>> THEN <<>>
    ELSE <<Turn(Head(history_data).role, <<TextPart(Head(history_data).text)>>)>>
         \o Reconstruct(Tail(history_data))

\* a variant that stores the text of every message whose last part is a text
RECURSIVE ProjectLastText(_)
ProjectLastText(history) ==
    IF history = <<>> THEN <<>>
    ELSE LET message == Head(history) IN
         (IF message.parts[Len(message.parts)].text # NoText
          THEN <<[role |-> message.role, text |-> message.parts[Len(message.parts)].text]>>
          ELSE <<>>)
         \o ProjectLastText(Tail(history))

\* save_session_history: only the messages made of exactly one text part are stored
RECURSIVE Project(_)
Project(history) ==
    IF history = <<>> THEN <<>>
    ELSE LET message == Head(history) IN
         (IF Len(message.parts) = 1 /\ message.parts[1].text # NoText
          THEN <<[role |-> message.role, text |-> message.parts[1].text]>>
          ELSE <<>>)
         \o Project(Tail(history))

\* `message.caption if message.caption else "<default prompt>"`
PromptOrDefault(caption, default) ==
    IF Truthy(caption) THEN caption ELSE default

\* a variant that puts the prompt before the file part
ContentsTextFirst(file_part, user_prompt) ==
    <<TextPart(user_prompt)>> \o (IF file_part # NoPart THEN <<file_part>> ELSE <<>>)

\* get_gemini_response: contents = [file_part?] + [user_prompt]
Contents(file_part, user_prompt) ==
    (IF file_part # NoPart THEN <<file_part>> ELSE <<>>) \o <<TextPart(user_prompt)>>

\* chat.send_message on success: the SDK records the user content and the reply
Recorded(history, contents, id) ==
    history \o <<Turn("user", contents), Turn("model", <<TextPart(ReplyText(id))>>)>>

\* the finally block of handle_photo / handle_document
Finally(fs, fr) ==
    IF fr.temp_file_path THEN fs \ {TempFile(fr.id)} ELSE fs

\* the frame of a handler that has returned
Ended(fr, outcome) == [fr EXCEPT !.pc = "done", !.outcome = outcome]

\* a variant that enters the session code whether or not the client exists
RespondUnchecked(fr) == [fr EXCEPT !.pc = "get"]

\* get_gemini_response, entry: `if client is None: return <message>`
Respond(fr) ==
    IF client THEN [fr EXCEPT !.pc = "get"] ELSE Ended(fr, "AuthConfigError")

\* a variant without the None check
AfterProcessUnchecked(fr) == Respond(fr)

\* handle_photo / handle_document: `if image_part is None: <message>; return`
AfterProcess(fr) ==
    IF fr.file_part = NoPart THEN Ended(fr, "UnreadableMedia") ELSE Respond(fr)

\* a variant that looks the entry up under a key that is never present
ForgetNothing(sessions, u) == sessions

\* reset_session: `if user_id in chat_sessions: del chat_sessions[user_id]`
Forget(sessions, u) == [sessions EXCEPT ![u] = 0]

\* a variant that deletes the whole collection
DeletedEverything(records, u) == [v \in Users |-> NoDoc]

\* reset_session: the document is gone once delete() has returned
Deleted(records, u) == [records EXCEPT ![u] = NoDoc]

\* ------------------------------------------------- dispatch bookkeeping
Busy(u) == \E t \in Threads : InFlight(t) /\ th[t].user_id = u

NewFrame(u, kind) ==
    [IdleFrame EXCEPT !.id = nreq + 1, !.user_id = u, !.kind = kind]

\* An update is handed to the first idle worker. Only a handler that goes on to
\* fetch or send content takes a request number (`counted`); at most MaxReq do.
Dispatch(t, u, counted) ==
    /\ \A t2 \in Threads : th[t2].pc # "done"
    /\ th[t].pc = "idle"
    /\ \A t2 \in Threads : t2 < t => th[t2].pc # "idle"
    /\ nreq = 0 => u = 1
    /\ counted => nreq < MaxReq
    /\ nreq' = IF counted THEN nreq + 1 ELSE nreq
    /\ mode = "serial" => \A t2 \in Threads : ~InFlight(t2)
    /\ raced' = [raced EXCEPT ![u] = @ \/ Busy(u)]

\* the answers a Firestore call can give: TRUE it succeeds, FALSE it raises
StoreAnswers ==
    IF store = "up" THEN {TRUE} ELSE IF store = "down" THEN {FALSE} ELSE BOOLEAN

\* chat objects nothing refers to any more are reclaimed
Collect(sessions, frames, objects) ==
    [i \in ReqIds |->
        IF i \in {sessions[u] : u \in Users} \cup {frames[t].chat : t \in Threads}
        THEN objects[i] ELSE <<>>]

\* ------------------------------------------------- handle_text
handle_text(t, u, txt) ==
    /\ Dispatch(t, u, ~Suppressed(u))
    /\ LET fr == [NewFrame(u, "text") EXCEPT !.user_prompt = txt] IN
       /\ th' = [th EXCEPT ![t] =
                    IF Suppressed(u) THEN Ended(fr, "Suppressed")
                    ELSE [fr EXCEPT !.pc = "stamp"]]
       /\ UNCHANGED <<config, shared, now, ideal>>

\* `last_interaction_time[user_id] = time.time()`, then get_gemini_response is entered
stamp(t) ==
    /\ Running(t, "stamp")
    /\ last_interaction_time' = [last_interaction_time EXCEPT ![th[t].user_id] = now]
    /\ th' = [th EXCEPT ![t] = Respond(@)]
    /\ UNCHANGED <<config, chat_sessions, user_chats, chats, files, now, nreq, ghosts>>

\* ------------------------------------------------- handle_photo / handle_document
handle_photo(t, u, cap) ==
    /\ Dispatch(t, u, TRUE)
    /\ th' = [th EXCEPT ![t] =
                [NewFrame(u, "photo") EXCEPT !.caption = cap, !.mime_type = MimeImage,
                                             !.pc = "download"]]
    /\ UNCHANGED <<config, shared, now, ideal>>

handle_document(t, u, mime, cap) ==
    /\ Dispatch(t, u, HasPdf(mime))
    /\ LET fr == [NewFrame(u, "document") EXCEPT !.caption = cap, !.mime_type = mime] IN
       th' = [th EXCEPT ![t] =
                IF mime = MimeNone THEN Ended(fr, "Raised")  \* `'pdf' not in None`: TypeError
                ELSE IF ~HasPdf(mime) THEN Ended(fr, "UnsupportedMediaType")
                ELSE [fr EXCEPT !.pc = "download"]]
    /\ UNCHANGED <<config, shared, now, ideal>>

\* the outcomes of process_file_part for a declared type
ProcessOutcomes(mime) ==
    IF HasImage(mime) THEN {"image", "unreadable"}
    ELSE IF HasPdf(mime) THEN {"page", "unrendered", "unreadable_png"}
    ELSE {"unsupported"}

\* a variant that loads every page of the document
PagesLoadedAll(n, res) ==
    IF res \in {"page", "unreadable_png"} THEN 0..(n - 1) ELSE {}

\* process_file_part: `page = doc.load_page(0)`, the indices of the pages it loads
\* from a document of n pages
PagesLoaded(n, res) ==
    IF res \in {"page", "unreadable_png"} THEN {0} ELSE {}

\* process_file_part: the part it returns, None on failure
FilePart(id, res) ==
    IF res \in {"image", "page"} THEN ImagePart(id) ELSE NoPart

\* process_file_part: the files it leaves under TEMP_DIR (pix.save of the first page)
Rendered(id, res) ==
    IF res \in {"page", "unreadable_png"} THEN {TempPng(id)} ELSE {}

\* bot.get_file, bot.download_file, the write of the temporary file, process_file_part
\* and the choice of the prompt; then get_gemini_response is entered
assemble(t) ==
    /\ Running(t, "download")
    /\ \/ \* the download raises: caught, temp_file_path is still None in the finally block
          /\ th' = [th EXCEPT ![t] = Ended(@, "InternalError")]
          /\ files' = Finally(files, th[t])
       \/ \E res \in ProcessOutcomes(IF th[t].kind = "photo" THEN MimeImage
                                     ELSE th[t].mime_type),
             n \in (IF th[t].kind = "photo" THEN {0} ELSE 1..MaxPages) :
            LET fr == [th[t] EXCEPT !.temp_file_path = TRUE, !.pages = n,
                                    !.loaded = PagesLoaded(n, res)]
                part == FilePart(fr.id, res)
                prompt == PromptOrDefault(fr.caption,
                             IF fr.kind = "photo" THEN PhotoDefaultPrompt
                             ELSE DocumentDefaultPrompt)
                fr2 == [fr EXCEPT !.file_part = part, !.user_prompt = prompt]
                fr3 == AfterProcess(fr2)
                written == files \cup {TempFile(fr.id)} \cup Rendered(fr.id, res)
            IN /\ th' = [th EXCEPT ![t] = fr3]
               /\ files' = IF fr3.pc = "done" THEN Finally(written, fr3) ELSE written
    /\ UNCHANGED <<config, chat_sessions, last_interaction_time, user_chats, chats,
                   now, nreq, ghosts>>

\* ------------------------------------------------- get_gemini_response
\* chat = get_session_history(user_id)
get_session_history(t) ==
    /\ Running(t, "get")
    /\ LET u == th[t].user_id
           id == th[t].id
       IN IF ~db
          THEN /\ th' = [th EXCEPT ![t] = [@ EXCEPT !.chat = LookupSession(u, id), !.pc = "cache"]]
               /\ UNCHANGED chats
          ELSE \E ok \in StoreAnswers :
               /\ chats' = [chats EXCEPT ![id] =
                              IF ok /\ user_chats[u].exists
                              THEN Reconstruct(user_chats[u].history)
                              ELSE <<>>]
               /\ th' = [th EXCEPT ![t] = [@ EXCEPT !.chat = id, !.pc = "cache"]]
    /\ UNCHANGED <<config, chat_sessions, last_interaction_time, user_chats, files,
                   now, nreq, ghosts>>

\* `chat_sessions[user_id] = chat`, then the contents are built
cache(t) ==
    /\ Running(t, "cache")
    /\ LET fr == th[t]
           cs == Contents(fr.file_part, fr.user_prompt)
       IN /\ chat_sessions' = [chat_sessions EXCEPT ![fr.user_id] = fr.chat]
          /\ th' = [th EXCEPT ![t] =
                      LET fr2 == [fr EXCEPT !.contents = cs,
                                            !.mutated = @ \/ chat_sessions[fr.user_id] # fr.chat]
                      IN IF cs = <<>> THEN Ended(fr2, "EmptyInput")  \* `if not contents`
                         ELSE [fr2 EXCEPT !.pc = "send"]]
          /\ files' = IF cs = <<>> THEN Finally(files, fr) ELSE files
    /\ chats' = Collect(chat_sessions', th', chats)
    /\ UNCHANGED <<config, last_interaction_time, user_chats, now, nreq, ghosts>>

\* response = chat.send_message(contents)
send_message(t) ==
    /\ Running(t, "send")
    /\ \E res \in {"ok", "APIError", "Exception"} :
         LET fr == [th[t] EXCEPT !.invoked = @ + 1] IN
         IF res = "ok"
         THEN /\ chats' = [chats EXCEPT ![fr.chat] = Recorded(@, fr.contents, fr.id)]
              /\ ideal' = [ideal EXCEPT ![fr.user_id] = Recorded(@, fr.contents, fr.id)]
              /\ th' = [th EXCEPT ![t] = [fr EXCEPT !.mutated = TRUE, !.pc = "save"]]
              /\ UNCHANGED files
         ELSE /\ th' = [th EXCEPT ![t] =
                          Ended(fr, IF res = "APIError" THEN "UpstreamError" ELSE "InternalError")]
              /\ files' = Finally(files, fr)
              /\ UNCHANGED <<chats, ideal>>
    /\ UNCHANGED <<config, chat_sessions, last_interaction_time, user_chats,
                   now, nreq, raced>>

\* save_session_history(user_id, chat); the reply is sent and the handler returns
save_session_history(t) ==
    /\ Running(t, "save")
    /\ IF ~db
       THEN UNCHANGED user_chats
       ELSE \E ok \in StoreAnswers :
              user_chats' = IF ok
                            THEN [user_chats EXCEPT ![th[t].user_id] =
                                    [exists |-> TRUE,
                                     history |-> Project(chats[th[t].chat])]]
                            ELSE user_chats
    /\ th' = [th EXCEPT ![t] = Ended(@, "Reply")]
    /\ files' = Finally(files, th[t])
    /\ UNCHANGED <<config, chat_sessions, last_interaction_time, chats,
                   now, nreq, ghosts>>

\* ------------------------------------------------- reset_session
reset_session(t, u) ==
    /\ Dispatch(t, u, FALSE)
    /\ chat_sessions' = Forget(chat_sessions, u)
    /\ th' = [th EXCEPT ![t] =
                LET fr == [NewFrame(u, "reset") EXCEPT !.mutated = chat_sessions[u] # 0]
                IN IF db THEN [fr EXCEPT !.pc = "delete"] ELSE Ended(fr, "ResetDone")]
    /\ ideal' = [ideal EXCEPT ![u] = <<>>]
    /\ chats' = Collect(chat_sessions', th', chats)
    /\ UNCHANGED <<config, last_interaction_time, user_chats, files, now>>

\* `db.collection('user_chats').document(str(user_id)).delete()`
delete(t) ==
    /\ Running(t, "delete")
    /\ \E ok \in StoreAnswers :
         /\ user_chats' = IF ok THEN Deleted(user_chats, th[t].user_id)
                          ELSE user_chats
    /\ th' = [th EXCEPT ![t] = Ended(@, "ResetDone")]
    /\ UNCHANGED <<config, chat_sessions, last_interaction_time, chats, files,
                   now, nreq, ghosts>>

\* the handler has returned: its frame is dropped before anything else happens
\* (the step touches nothing shared, so taking it first loses no behaviour)
return(t) ==
    /\ th[t].pc = "done"
    /\ th' = [th EXCEPT ![t] = IdleFrame]
    /\ chats' = Collect(chat_sessions, th', chats)
    /\ UNCHANGED <<config, chat_sessions, last_interaction_time, user_chats, files,
                   now, nreq, ghosts>>

\* time passes
Tick ==
    /\ \A t \in Threads : th[t].pc # "done"
    /\ now < MaxTime
    /\ now' = now + 1
    /\ UNCHANGED <<config, shared, nreq, th, ghosts>>

\* what the users send: every kind of message in serial mode; plain texts and
\* photos (and /reset) when handlers overlap
OfferedTexts(id) == IF mode = "serial" THEN {EmptyText, MsgText(id)} ELSE {MsgText(id)}
OfferedCaptions(id) == IF mode = "serial" THEN {NoText, CaptionText(id)} ELSE {NoText}
OfferedMimes == IF mode = "serial" THEN MimeTypes ELSE {}

Next ==
    \/ Tick
    \/ \E t \in Threads, u \in Users :
         \/ \E txt \in OfferedTexts(nreq + 1) : handle_text(t, u, txt)
         \/ \E cap \in OfferedCaptions(nreq + 1) : handle_photo(t, u, cap)
         \/ \E mime \in OfferedMimes, cap \in OfferedCaptions(nreq + 1) :
              /\ ~HasPdf(mime) => cap = NoText
              /\ handle_document(t, u, mime, cap)
         \/ reset_session(t, u)
    \/ \E t \in Threads :
         \/ stamp(t)
         \/ assemble(t)
         \/ get_session_history(t)
         \/ cache(t)
         \/ send_message(t)
         \/ save_session_history(t)
         \/ delete(t)
         \/ return(t)

Spec == Init /\ [][Next]_vars

\* ===================================================== properties

Window == DebounceSeconds * TicksPerSecond
Done(t) == th[t].pc = "done"
Session(u) == IF chat_sessions[u] = 0 THEN <<>> ELSE chats[chat_sessions[u]]
AllText(turn) == \A i \in 1..Len(turn.parts) : ~IsImage(turn.parts[i])
HasImagePart(turn) == \E i \in 1..Len(turn.parts) : IsImage(turn.parts[i])
TextTurns(history) == SelectSeq(history, AllText)
DefaultPrompt(kind) == IF kind = "photo" THEN PhotoDefaultPrompt ELSE DocumentDefaultPrompt
Attachment(t) == th[t].kind \in {"photo", "document"}

\* C1 (as claimed): the session get_session_history returns to a handler is the
\* user's volatile entry whenever that entry is present, whatever Firestore holds
\* or answers; so a turn appended last is the last turn of the next get.
C1_GetReturnsVolatileEntry ==
    \A t \in Threads :
        LET u == th[t].user_id IN
        (th[t].pc = "cache" /\ ~raced[u] /\ chat_sessions[u] # 0)
            => chats[th[t].chat] = chats[chat_sessions[u]]

\* C2 (as claimed): with Firestore configured and failing on every call, the
\* history a request is sent with is the in-memory history: the turns of the
\* user's earlier successful exchanges since the last reset, in order.
C2_FailingStoreIsTransparent ==
    \A t \in Threads :
        LET u == th[t].user_id IN
        (db /\ store = "down" /\ th[t].pc = "send" /\ ~raced[u])
            => chats[th[t].chat] = ideal[u]

C4_Debounce ==
    \A u \in Users : (now < Window /\ ~raced[u]) => Len(ideal[u]) <= 2

\* C5 (as claimed): when the model call of a request fails, no model turn is added
\* and the user turn of the request stays in the history: it is the last turn of
\* the user's session when the handler returns.
C5_FailedCallKeepsUserTurn ==
    \A t \in Threads :
        LET u == th[t].user_id IN
        (Done(t) /\ th[t].invoked = 1 /\ ~raced[u] /\ Truthy(th[t].user_prompt)
                 /\ th[t].outcome \in {"UpstreamError", "InternalError"})
            => /\ Session(u) # <<>>
               /\ Session(u)[Len(Session(u))] = Turn("user", th[t].contents)

\* C6: when assembly fails (a declared type that is neither image nor PDF, or media
\* that cannot be decoded or rendered), the handler ends with the matching error,
\* has not changed the user's session in either tier and has not called the model.
C6_AssemblyFailure ==
    \A t \in Threads :
        Done(t) =>
            /\ (th[t].kind = "document" /\ th[t].mime_type = MimeOther)
                   => th[t].outcome = "UnsupportedMediaType"
            /\ (Attachment(t) /\ th[t].temp_file_path /\ th[t].file_part = NoPart)
                   => th[t].outcome = "UnreadableMedia"
            /\ th[t].outcome \in {"UnsupportedMediaType", "UnreadableMedia"}
                   => th[t].invoked = 0 /\ ~th[t].mutated

C6_Witness ==
    \E t \in Threads :
        /\ Done(t) /\ th[t].kind = "document" /\ th[t].outcome = "UnreadableMedia"
        /\ Session(th[t].user_id) # <<>>

\* C7 (as claimed): a text request with no attachment and an empty text ends with
\* EmptyInput, without a model call and without a change to the session.
C7_EmptyInput ==
    \A t \in Threads :
        (Done(t) /\ client /\ th[t].kind = "text" /\ ~Truthy(th[t].user_prompt)
                 /\ th[t].outcome # "Suppressed")
            => th[t].outcome = "EmptyInput" /\ th[t].invoked = 0 /\ ~th[t].mutated

\* C8 (as claimed): when a handler returns, neither the file it downloaded nor the
\* image it rendered from the first page is left under TEMP_DIR.
C8_TempFilesDeleted ==
    \A t \in Threads :
        Done(t) => TempFile(th[t].id) \notin files /\ TempPng(th[t].id) \notin files

\* C9: the contents sent for a request with an attachment are two parts, the image
\* first and then the caption, or the default prompt when there is no caption.
C9_ImageThenText ==
    \A t \in Threads :
        (Attachment(t) /\ (th[t].pc \in {"send", "save"} \/ th[t].invoked = 1))
            => /\ Len(th[t].contents) = 2
               /\ th[t].contents[1] = ImagePart(th[t].id)
               /\ ~IsImage(th[t].contents[2])
               /\ th[t].contents[2].text =
                     (IF th[t].caption = CaptionText(th[t].id) THEN th[t].caption
                      ELSE DefaultPrompt(th[t].kind))

C9_Witness ==
    \E t \in Threads :
        /\ th[t].kind = "document" /\ th[t].pc = "save" /\ th[t].caption = NoText
        /\ th[t].contents[2] = TextPart(DocumentDefaultPrompt)

\* C10: reset_session removes the volatile entry and returns normally whether or
\* not the delete fails; with a working store the record is gone as well, and a
\* get that follows a reset with no exchange in between yields an empty session.
C10_Reset ==
    \A t \in Threads :
        LET u == th[t].user_id IN
        /\ (Done(t) /\ th[t].kind = "reset" /\ ~raced[u])
               => /\ th[t].outcome = "ResetDone"
                  /\ chat_sessions[u] = 0
                  /\ (db /\ store = "up") => ~user_chats[u].exists
        /\ (th[t].pc = "cache" /\ ~raced[u] /\ (db => store = "up") /\ ideal[u] = <<>>)
               => chats[th[t].chat] = <<>>

C10_Witness ==
    \E t \in Threads :
        /\ Done(t) /\ th[t].kind = "reset" /\ th[t].mutated /\ ~raced[th[t].user_id]
        /\ db /\ store = "up" /\ nreq >= 1

C12_NoRawException ==
    \A t \in Threads :
        Done(t) => th[t].outcome \in {"Reply", "Suppressed", "ResetDone", "AuthConfigError",
                                      "EmptyInput", "UnsupportedMediaType", "UnreadableMedia",
                                      "UpstreamError", "InternalError"}

ImageParts(contents) == {i \in 1..Len(contents) : IsImage(contents[i])}

\* C13: from a PDF of N >= 1 pages process_file_part loads page 0 and no other
\* page, whatever N is, and the contents sent for it hold exactly one image part.
C13_PaginationBound ==
    \A t \in Threads :
        (th[t].kind = "document" /\ th[t].pages >= 1) =>
            /\ th[t].loaded \subseteq {0}
            /\ th[t].file_part # NoPart
                   => /\ th[t].loaded = {0}
                      /\ th[t].file_part = ImagePart(th[t].id)
            /\ (th[t].pc \in {"send", "save"} \/ th[t].invoked = 1)
                   => Cardinality(ImageParts(th[t].contents)) = 1

C13_Witness ==
    \E t \in Threads :
        /\ th[t].kind = "document" /\ th[t].pages > 1 /\ th[t].pc = "save"
        /\ th[t].loaded = {0}

AdjacentPairs(history) == {<<history[i], history[i + 1]>> : i \in 1..(Len(history) - 1)}
Exchanges(u) == {<<ideal[u][i], ideal[u][i + 1]>> : i \in {1, 3}}
Stored(u) == Reconstruct(user_chats[u].history)

\* C14 (as claimed): when two requests of a user have both been answered by the
\* model and no handler of the user is running, whether or not the two overlapped,
\* the session holds both exchanges, each user turn directly followed by its reply:
\* in the volatile entry (checked without Firestore, where that entry is the
\* session), and in the stored record for the turns that are text (with Firestore
\* working).
C14_SameUserSerialized ==
    \A u \in Users :
        (~Busy(u) /\ Len(ideal[u]) = 4) =>
            /\ ~db => Exchanges(u) \subseteq AdjacentPairs(Session(u))
            /\ (db /\ store = "up") =>
                   \A i \in 1..4 :
                       AllText(ideal[u][i]) => \E j \in 1..Len(Stored(u)) :
                                                   Stored(u)[j] = ideal[u][i]

\* a occurs in b, in order (not necessarily contiguously)
RECURSIVE IsSubseq(_, _)
IsSubseq(a, b) ==
    IF a = <<>> THEN TRUE
    ELSE IF b = <<>> THEN FALSE
    ELSE IF Head(a) = Head(b) THEN IsSubseq(Tail(a), Tail(b))
    ELSE IsSubseq(a, Tail(b))

\* C15 (as claimed): whenever a user has a volatile entry, that entry holds, in
\* order, every turn of the record last written to Firestore for the user, also
\* after a read of the record has failed (handlers of the user not overlapping).
C15_VolatileHoldsDurable ==
    \A u \in Users :
        (chat_sessions[u] # 0 /\ ~raced[u]) => IsSubseq(Stored(u), Session(u))

\* the step hands a text message of user u to worker t, and the message is suppressed
SuppressedStep(t, u) ==
    /\ th[t].pc = "idle"
    /\ th'[t].kind = "text" /\ th'[t].user_id = u /\ th'[t].outcome = "Suppressed"

\* C16 (as claimed): a suppressed message still overwrites the user's debounce
\* record with the time of the message, so that a third message less than a second
\* after a suppressed one is suppressed too, however long ago the first one was.
C16_SuppressedOverwritesRecord ==
    [][\A t \in Threads, u \in Users :
           SuppressedStep(t, u) => last_interaction_time'[u] = now]_vars

\* C17 (as claimed): a handler ends with UnsupportedMediaType only when the
\* declared type of the attachment is neither an image type nor a PDF type; an
\* image sent as a document is assembled like a photo.
C17_UnsupportedOnlyWhenNeither ==
    \A t \in Threads :
        (Done(t) /\ th[t].outcome = "UnsupportedMediaType")
            => ~HasImage(th[t].mime_type) /\ ~HasPdf(th[t].mime_type)

SinceReset(u) == {ideal[u][i] : i \in 1..Len(ideal[u])}
Turns(history) == {history[i] : i \in 1..Len(history)}

\* C18 (as claimed): once no handler of a user is running, neither the volatile
\* entry nor the stored record (Firestore working) holds a turn of an exchange that
\* was completed before the user's last /reset, also when the reset arrived while
\* a request of the user was in flight.
C18_ResetWinsOverInFlight ==
    \A u \in Users :
        (~Busy(u) /\ (db => store = "up")) =>
            /\ Turns(Session(u)) \subseteq SinceReset(u)
            /\ Turns(Stored(u)) \subseteq SinceReset(u)

\* the step is taken by worker t on behalf of user a
ActsFor(t, a) ==
    /\ th'[t] # th[t]
    /\ a = (IF th[t].pc = "idle" THEN th'[t].user_id ELSE th[t].user_id)

\* C19: a step of a handler running for user a (text, photo, document or /reset,
\* under any interleaving) leaves every other user's volatile entry and its
\* history, stored record and debounce record as they were.
C19_CrossUserIsolation ==
    [][\A t \in Threads, a \in Users, b \in Users :
           (ActsFor(t, a) /\ b # a) =>
               /\ chat_sessions'[b] = chat_sessions[b]
               /\ Session(b)' = Session(b)
               /\ user_chats'[b] = user_chats[b]
               /\ last_interaction_time'[b] = last_interaction_time[b]]_vars

C19_Witness ==
    \E t \in Threads, b \in Users :
        /\ Done(t) /\ th[t].kind = "reset" /\ th[t].user_id # b /\ th[t].mutated
        /\ db /\ Session(b) # <<>> /\ user_chats[b].exists
        /\ last_interaction_time[b] # -1

\* roles alternate, starting with the user
Alternates(history_data) ==
    \A i \in 1..Len(history_data) :
        history_data[i].role = (IF i % 2 = 1 THEN "user" ELSE "model")

\* C20 (as claimed): the history of every stored record alternates roles starting
\* with the user, so that each stored model turn directly follows the stored user
\* turn it answers, also after an exchange whose user turn carried an image.
C20_StoredRolesAlternate ==
    \A u \in Users :
        (user_chats[u].exists /\ ~raced[u]) => Alternates(user_chats[u].history)
====
